---- MODULE Spec2Model ----
(***************************************************************************)
(* highlight-pulldown: the single-pass rewriter `highlight` of src/lib.rs  *)
(* and the PulldownHighlighter object that delegates to it.                *)
(*                                                                         *)
(* A call of `highlight` is modelled step by step: one action per arm of   *)
(* the `match event` of the for loop, one for the construction of the      *)
(* locals (the call), one for the return after the iterator is exhausted.  *)
(* The input is an Iterator: each step pulls the next event, and events[t] *)
(* records the events pulled so far by the call running on thread t.       *)
(***************************************************************************)
EXTENDS Integers, Sequences, FiniteSets, TLC

\* ------------------------------------------------------------------ bounds
\* Longest input (events pulled by one call) explored under Spec.
MaxLen == 4
\* Number of calls one thread makes, one after the other, under Spec.
MaxCalls == 2
\* Longest input explored under SpecPar (two interleaved calls).
MaxLenPar == 2
\* Number of calls one thread makes under SpecPar.
MaxCallsPar == 1
\* Longest input explored under SpecSyn (every fence token, one payload).
MaxLenSyn == 5
\* Number of calls one thread makes under SpecSyn.
MaxCallsSyn == 1

\* ---------------------------------------------------------- the environment
\* Threads that call into the library.
Threads == {1, 2}

\* Language tokens a fence can carry; "zz" is known to no registry.
\* Fences with "rs" are explored under SpecSyn only.
Tokens == {"py", "rs", "zz"}

\* Syntax definitions (syntect::parsing::SyntaxReference), by name.
Syntaxes == {"plain", "python", "rust"}

\* Themes (syntect::highlighting::Theme), by name.
Themes == {"dark", "light"}

\* Text payloads: strings as sequences of characters.
Payloads == {<<"a">>, <<"\"">>}

\* The SyntaxSet handed to the library: token -> syntax definition.
DefaultSyntaxSet ==
    [plain_text |-> "plain", by_token |-> [py |-> "python", rs |-> "rust"]]

\* pulldown_cmark::Event, as a record with the same fields for every variant.
\* The End event carries a CodeBlockKind which the code ignores (`_`).
StartFenced(lang) == [type |-> "Start", kind |-> "Fenced", lang |-> lang, text |-> <<>>]
StartIndented == [type |-> "Start", kind |-> "Indented", lang |-> "", text |-> <<>>]
EndCodeBlockEv == [type |-> "End", kind |-> "", lang |-> "", text |-> <<>>]
TextEv(s) == [type |-> "Text", kind |-> "", lang |-> "", text |-> s]
\* An event of any other variant (here Event::Rule).
RuleEv == [type |-> "Rule", kind |-> "", lang |-> "", text |-> <<>>]
HtmlEv(s) == [type |-> "Html", kind |-> "", lang |-> "", text |-> s]

\* The events an input iterator can yield.
Events ==
    {StartFenced("py"), StartFenced("zz"), StartIndented, EndCodeBlockEv, RuleEv}
        \cup {TextEv(s) : s \in Payloads}

\* The events of the inputs explored under SpecSyn: a fence for every token.
SynEvents ==
    {StartFenced(l) : l \in Tokens} \cup {EndCodeBlockEv, RuleEv, TextEv(<<"a">>)}

\* The events of the inputs explored under SpecPar.
ParEvents == {StartFenced("py"), EndCodeBlockEv, TextEv(<<"a">>), RuleEv}

\* --------------------------------------------------------------- the state
VARIABLES
    highlighter,    \* the PulldownHighlighter object: [syntaxset, theme]
    rejects,        \* syntax definitions the engine fails to render (fixed)
    args,           \* args[t]: [syntax_set, theme] of the running call
    form,           \* form[t]: "method" (PulldownHighlighter::highlight) or "function"
    events,         \* events[t]: the input events pulled so far by the call
    call,           \* call[t]: the locals of `highlight`, its position and its result
    calls           \* calls[t]: number of calls thread t has started

vars == <<highlighter, rejects, args, form, events, call, calls>>

\* ------------------------------------------------- the collaborators' contracts
\* SyntaxSet::find_syntax_plain_text
find_syntax_plain_text(syntax_set) == syntax_set.plain_text

\* SyntaxSet::find_syntax_by_token: Option<&SyntaxReference>, as a set of at
\* most one element.
find_syntax_by_token(syntax_set, lang) ==
    IF lang \in DOMAIN syntax_set.by_token THEN {syntax_set.by_token[lang]} ELSE {}

\* Option::unwrap_or
unwrap_or(opt, default) == IF opt = {} THEN default ELSE CHOOSE s \in opt : TRUE

\* The engine escapes the HTML-unsafe characters of the text (the test expects
\* &quot; for each double quote of the code).
EscapeChar(c) == IF c = "\"" THEN "&quot;" ELSE c

Escape(text) == [i \in 1..Len(text) |-> EscapeChar(text[i])]

\* syntect::html::highlighted_html_for_string: Result<String, syntect::Error>.
\* The markup names the theme (the <pre> style) and the syntax (the spans).
highlighted_html_for_string(text, syntax_set, syntax, theme) ==
    IF syntax \in rejects
    THEN [ok |-> FALSE, html |-> <<>>, err |-> <<"syntect::Error", syntax, theme>>]
    ELSE [ok |-> TRUE,
          html |-> <<"<pre " \o theme \o ">", "<span " \o syntax \o ">">>
                       \o Escape(text) \o <<"</span>", "</pre>">>,
          err |-> <<>>]

\* ------------------------------------------------------------ the results
NoRet == [tag |-> "None", events |-> <<>>, error |-> <<>>]
Ok(out) == [tag |-> "Ok", events |-> out, error |-> <<>>]
\* Error::HighlightError(#[from] syntect::Error)
HighlightError(e) == [tag |-> "Err", events |-> <<>>, error |-> <<"HighlightError">> \o e]

\* ------------------------------------------------------------- `highlight`
\* The frame of a thread that is not inside a call.
Idle ==
    [pc |-> "idle", in_code_block |-> FALSE, syntax |-> "plain", to_highlight |-> <<>>,
     out_events |-> <<>>, ret |-> NoRet, engine_calls |-> 0]

\* The locals of `highlight` before the loop.
Locals(syntax_set) ==
    [pc |-> "loop", in_code_block |-> FALSE,
     syntax |-> find_syntax_plain_text(syntax_set),
     to_highlight |-> <<>>, out_events |-> <<>>, ret |-> NoRet, engine_calls |-> 0]

\* StartArm falling back to plain text when the token is unknown.
StartArmResetOnMiss(c, a, e) ==
    [c EXCEPT !.syntax = IF e.kind = "Fenced"
                         THEN unwrap_or(find_syntax_by_token(a.syntax_set, e.lang),
                                        find_syntax_plain_text(a.syntax_set))
                         ELSE c.syntax,
              !.in_code_block = TRUE]

\* StartArm that empties the buffer for the block it opens.
StartArmClearsBuffer(c, a, e) ==
    [c EXCEPT !.syntax = IF e.kind = "Fenced"
                         THEN unwrap_or(find_syntax_by_token(a.syntax_set, e.lang), c.syntax)
                         ELSE c.syntax,
              !.to_highlight = <<>>,
              !.in_code_block = TRUE]

\* Event::Start(Tag::CodeBlock(kind))
StartArm(c, a, e) ==
    [c EXCEPT !.syntax = IF e.kind = "Fenced"
                         THEN unwrap_or(find_syntax_by_token(a.syntax_set, e.lang), c.syntax)
                         ELSE c.syntax,
              !.in_code_block = TRUE]

\* EndArm that drops a block the engine cannot render and goes on.
EndArmSkipOnError(c, a, e) ==
    IF ~c.in_code_block
    THEN [c EXCEPT !.pc = "panic"]
    ELSE LET r == highlighted_html_for_string(c.to_highlight, a.syntax_set, c.syntax, a.theme)
         IN IF ~r.ok
            THEN [c EXCEPT !.to_highlight = <<>>, !.in_code_block = FALSE,
                           !.engine_calls = c.engine_calls + 1]
            ELSE [c EXCEPT !.to_highlight = <<>>, !.in_code_block = FALSE,
                           !.out_events = Append(c.out_events, HtmlEv(r.html)),
                           !.engine_calls = c.engine_calls + 1]

\* EndArm that does not clear the buffer.
EndArmKeepBuffer(c, a, e) ==
    IF ~c.in_code_block
    THEN [c EXCEPT !.pc = "panic"]
    ELSE LET r == highlighted_html_for_string(c.to_highlight, a.syntax_set, c.syntax, a.theme)
         IN IF ~r.ok
            THEN [c EXCEPT !.pc = "err", !.ret = HighlightError(r.err),
                           !.engine_calls = c.engine_calls + 1]
            ELSE [c EXCEPT !.in_code_block = FALSE,
                           !.out_events = Append(c.out_events, HtmlEv(r.html)),
                           !.engine_calls = c.engine_calls + 1]

\* EndArm that emits nothing for a block without Text.
EndArmSkipEmpty(c, a, e) ==
    IF ~c.in_code_block
    THEN [c EXCEPT !.pc = "panic"]
    ELSE IF c.to_highlight = <<>>
    THEN [c EXCEPT !.in_code_block = FALSE]
    ELSE LET r == highlighted_html_for_string(c.to_highlight, a.syntax_set, c.syntax, a.theme)
         IN IF ~r.ok
            THEN [c EXCEPT !.pc = "err", !.ret = HighlightError(r.err),
                           !.engine_calls = c.engine_calls + 1]
            ELSE [c EXCEPT !.to_highlight = <<>>, !.in_code_block = FALSE,
                           !.out_events = Append(c.out_events, HtmlEv(r.html)),
                           !.engine_calls = c.engine_calls + 1]

\* EndArm without the test of in_code_block.
EndArmNoCheck(c, a, e) ==
    LET r == highlighted_html_for_string(c.to_highlight, a.syntax_set, c.syntax, a.theme)
    IN IF ~r.ok
       THEN [c EXCEPT !.pc = "err", !.ret = HighlightError(r.err),
                      !.engine_calls = c.engine_calls + 1]
       ELSE [c EXCEPT !.to_highlight = <<>>, !.in_code_block = FALSE,
                      !.out_events = Append(c.out_events, HtmlEv(r.html)),
                      !.engine_calls = c.engine_calls + 1]

\* Event::End(Tag::CodeBlock(_))
EndArm(c, a, e) ==
    IF ~c.in_code_block
    THEN [c EXCEPT !.pc = "panic"]
    ELSE LET r == highlighted_html_for_string(c.to_highlight, a.syntax_set, c.syntax, a.theme)
         IN IF ~r.ok
            THEN [c EXCEPT !.pc = "err", !.ret = HighlightError(r.err),
                           !.engine_calls = c.engine_calls + 1]
            ELSE [c EXCEPT !.to_highlight = <<>>, !.in_code_block = FALSE,
                           !.out_events = Append(c.out_events, HtmlEv(r.html)),
                           !.engine_calls = c.engine_calls + 1]

\* TextArm pushing the fragment in front of the buffer.
TextArmPrepend(c, a, e) ==
    IF c.in_code_block
    THEN [c EXCEPT !.to_highlight = e.text \o c.to_highlight]
    ELSE [c EXCEPT !.out_events = Append(c.out_events, TextEv(e.text))]

\* TextArm that falls back to the plain-text syntax once a block holds Text.
TextArmResetsSyntax(c, a, e) ==
    IF c.in_code_block
    THEN [c EXCEPT !.to_highlight = c.to_highlight \o e.text,
                   !.syntax = find_syntax_plain_text(a.syntax_set)]
    ELSE [c EXCEPT !.out_events = Append(c.out_events, TextEv(e.text))]

\* TextArm without the test of in_code_block: every Text is buffered.
TextArmAlwaysBuffer(c, a, e) == [c EXCEPT !.to_highlight = c.to_highlight \o e.text]

\* Event::Text(t)
TextArm(c, a, e) ==
    IF c.in_code_block
    THEN [c EXCEPT !.to_highlight = c.to_highlight \o e.text]
    ELSE [c EXCEPT !.out_events = Append(c.out_events, TextEv(e.text))]

\* OtherArm that takes an event pulled inside a block for a part of the code.
OtherArmAsText(c, a, e) ==
    IF c.in_code_block
    THEN [c EXCEPT !.to_highlight = c.to_highlight \o <<e.type>>]
    ELSE [c EXCEPT !.out_events = Append(c.out_events, e)]

\* OtherArm that forwards nothing while a block is open.
OtherArmSwallow(c, a, e) ==
    IF c.in_code_block THEN c ELSE [c EXCEPT !.out_events = Append(c.out_events, e)]

\* e => out_events.push(e)
OtherArm(c, a, e) == [c EXCEPT !.out_events = Append(c.out_events, e)]

\* The return flushing the Text of a block left open as a Text event.
ReturnOkFlush(c) ==
    [c EXCEPT !.pc = "ok",
              !.ret = Ok(IF c.in_code_block
                         THEN Append(c.out_events, TextEv(c.to_highlight))
                         ELSE c.out_events)]

\* Ok(out_events)
ReturnOk(c) == [c EXCEPT !.pc = "ok", !.ret = Ok(c.out_events)]

\* PulldownHighlighter::new
PulldownHighlighter_new(syntaxset, theme) == [syntaxset |-> syntaxset, theme |-> theme]

\* The delegation passing a fixed theme instead of the object's.
PulldownHighlighter_highlight_FixedTheme(self) ==
    [syntax_set |-> self.syntaxset, theme |-> "dark"]

\* PulldownHighlighter::highlight passes its own registry and theme on.
PulldownHighlighter_highlight(self) == [syntax_set |-> self.syntaxset, theme |-> self.theme]

\* ---------------------------------------------------------------- actions
Returned(t) == call[t].pc \in {"idle", "ok", "err"}

\* Enter with the selected syntax kept from the previous call of the thread.
EnterKeepSyntax(t, a, f) ==
    /\ Returned(t)
    /\ args' = [args EXCEPT ![t] = a]
    /\ form' = [form EXCEPT ![t] = f]
    /\ events' = [events EXCEPT ![t] = <<>>]
    /\ call' = [call EXCEPT ![t] = [Locals(a.syntax_set) EXCEPT !.syntax = call[t].syntax]]
    /\ calls' = [calls EXCEPT ![t] = calls[t] + 1]
    /\ UNCHANGED <<highlighter, rejects>>

\* A call of highlight(syntax_set, theme, events): the locals are built.
Enter(t, a, f) ==
    /\ Returned(t)
    /\ args' = [args EXCEPT ![t] = a]
    /\ form' = [form EXCEPT ![t] = f]
    /\ events' = [events EXCEPT ![t] = <<>>]
    /\ call' = [call EXCEPT ![t] = Locals(a.syntax_set)]
    /\ calls' = [calls EXCEPT ![t] = calls[t] + 1]
    /\ UNCHANGED <<highlighter, rejects>>

\* highlighter.highlight(events)
CallMethod(t) == Enter(t, PulldownHighlighter_highlight(highlighter), "method")

\* highlight(&syntax_set, &theme, events)
CallFunction(t, theme) ==
    Enter(t, [syntax_set |-> DefaultSyntaxSet, theme |-> theme], "function")

\* The loop pulls event e and runs the arm that matches it.
Pull(t, e, arm) ==
    /\ call[t].pc = "loop"
    /\ events' = [events EXCEPT ![t] = Append(events[t], e)]
    /\ call' = [call EXCEPT ![t] = arm]
    /\ UNCHANGED <<highlighter, rejects, args, form, calls>>

StartCodeBlock(t, e) == e.type = "Start" /\ Pull(t, e, StartArm(call[t], args[t], e))

EndCodeBlock(t, e) == e.type = "End" /\ Pull(t, e, EndArm(call[t], args[t], e))

\* Text with one accumulation buffer shared by the calls in progress.
TextSharedBuffer(t, e) ==
    /\ e.type = "Text"
    /\ call[t].pc = "loop"
    /\ events' = [events EXCEPT ![t] = Append(events[t], e)]
    /\ call' = [u \in Threads |->
                 IF u = t THEN TextArm(call[t], args[t], e)
                 ELSE IF call[t].in_code_block /\ call[u].pc = "loop"
                      THEN [call[u] EXCEPT !.to_highlight = call[u].to_highlight \o e.text]
                      ELSE call[u]]
    /\ UNCHANGED <<highlighter, rejects, args, form, calls>>

Text(t, e) == e.type = "Text" /\ Pull(t, e, TextArm(call[t], args[t], e))

Other(t, e) ==
    e.type \notin {"Start", "End", "Text"} /\ Pull(t, e, OtherArm(call[t], args[t], e))

\* The loop not ending while a block is open.
ReturnWhenClosed(t) ==
    /\ call[t].pc = "loop"
    /\ ~call[t].in_code_block
    /\ call' = [call EXCEPT ![t] = ReturnOk(call[t])]
    /\ UNCHANGED <<highlighter, rejects, args, form, events, calls>>

\* The iterator is exhausted: the loop ends and the call returns.
Return(t) ==
    /\ call[t].pc = "loop"
    /\ call' = [call EXCEPT ![t] = ReturnOk(call[t])]
    /\ UNCHANGED <<highlighter, rejects, args, form, events, calls>>

\* ---------------------------------------------------------- specifications
RejectChoices == {{}, {"python"}, {"plain"}}

Init ==
    /\ highlighter \in {PulldownHighlighter_new(DefaultSyntaxSet, th) : th \in Themes}
    /\ rejects \in RejectChoices
    /\ args = [t \in Threads |-> [syntax_set |-> DefaultSyntaxSet, theme |-> "dark"]]
    /\ form = [t \in Threads |-> "function"]
    /\ events = [t \in Threads |-> <<>>]
    /\ call = [t \in Threads |-> Idle]
    /\ calls = [t \in Threads |-> 0]

\* One thread, calls one after the other.
Next ==
    \E t \in {1} :
        \/ calls[t] < MaxCalls /\ CallMethod(t)
        \/ calls[t] < MaxCalls /\ \E th \in Themes : CallFunction(t, th)
        \/ /\ Len(events[t]) < MaxLen
           /\ \E e \in Events :
                \/ StartCodeBlock(t, e)
                \/ EndCodeBlock(t, e)
                \/ Text(t, e)
                \/ Other(t, e)
        \/ Return(t)

Spec == Init /\ [][Next]_vars

\* Two threads whose calls interleave step by step.
NextPar ==
    \E t \in Threads :
        \/ calls[t] < MaxCallsPar /\ CallMethod(t)
        \/ calls[t] < MaxCallsPar /\ \E th \in Themes : CallFunction(t, th)
        \/ /\ Len(events[t]) < MaxLenPar
           /\ \E e \in ParEvents :
                \/ StartCodeBlock(t, e)
                \/ EndCodeBlock(t, e)
                \/ Text(t, e)
                \/ Other(t, e)
        \/ Return(t)

SpecPar == Init /\ [][NextPar]_vars

\* One thread, one Highlighter with the dark theme, fences of every token.
InitSyn ==
    /\ highlighter = PulldownHighlighter_new(DefaultSyntaxSet, "dark")
    /\ rejects \in {{}, {"python"}}
    /\ args = [t \in Threads |-> [syntax_set |-> DefaultSyntaxSet, theme |-> "dark"]]
    /\ form = [t \in Threads |-> "function"]
    /\ events = [t \in Threads |-> <<>>]
    /\ call = [t \in Threads |-> Idle]
    /\ calls = [t \in Threads |-> 0]

\* The next step of a call in progress: the loop pulls an event, or ends.
Advance(t) ==
    \/ /\ Len(events[t]) < MaxLenSyn
       /\ \E e \in SynEvents :
            \/ StartCodeBlock(t, e)
            \/ EndCodeBlock(t, e)
            \/ Text(t, e)
            \/ Other(t, e)
    \/ Return(t)

NextSyn ==
    \E t \in {1} :
        \/ calls[t] < MaxCallsSyn /\ CallMethod(t)
        \/ calls[t] < MaxCallsSyn /\ \E th \in Themes : CallFunction(t, th)
        \/ Advance(t)

SpecSyn == InitSyn /\ [][NextSyn]_vars

\* `highlight` runs to completion in the calling thread: a call in progress
\* takes its next step.
SpecSynLive == SpecSyn /\ WF_vars(Advance(1))


\* ------------------------------------------------- vocabulary of the claims
IsStart(e) == e.type = "Start"
IsEnd(e) == e.type = "End"
IsText(e) == e.type = "Text"
IsHtml(e) == e.type = "Html"
IsCodeBlockEv(e) == IsStart(e) \/ IsEnd(e)

Done(t) == call[t].pc \in {"ok", "err", "panic"}

\* The input holds no code-block event.
NoCodeBlock(in) == \A i \in 1..Len(in) : ~IsCodeBlockEv(in[i])

\* Number of blocks open after the first i events.
Depth(in, i) ==
    Cardinality({j \in 1..i : IsStart(in[j])}) - Cardinality({j \in 1..i : IsEnd(in[j])})

\* Starts and Ends alternate, beginning with a Start, and every block is closed.
WellFormed(in) ==
    /\ \A i \in 1..Len(in) : Depth(in, i) \in {0, 1}
    /\ Depth(in, Len(in)) = 0

\* The payloads of the Text events in[i..j], concatenated in input order.
RECURSIVE ConcatText(_, _, _)
ConcatText(in, i, j) ==
    IF i > j THEN <<>>
    ELSE (IF IsText(in[i]) THEN in[i].text ELSE <<>>) \o ConcatText(in, i + 1, j)

\* in[i] opens and in[j] closes the only code block of the input, and the block
\* holds Text events only.
OneBlock(in, i, j) ==
    /\ i < j
    /\ IsStart(in[i])
    /\ IsEnd(in[j])
    /\ \A k \in (i + 1)..(j - 1) : IsText(in[k])
    /\ \A k \in 1..Len(in) : (k < i \/ k > j) => ~IsCodeBlockEv(in[k])

\* The syntaxes the substitution property allows for a block opened by e.
SubstitutionSyntaxes(syntax_set, e) ==
    IF e.kind = "Indented" THEN {syntax_set.plain_text}
    ELSE IF e.lang \in DOMAIN syntax_set.by_token THEN {syntax_set.by_token[e.lang]}
    ELSE Syntaxes

\* render(text, syntax, theme): the payload the engine produces.
Render(text, syntax_set, syntax, theme) ==
    highlighted_html_for_string(text, syntax_set, syntax, theme).html

\* C1 (substitution): when a call succeeds on an input whose only code block
\* is Start, Text(t1)..Text(tn), End, the value returned is the input with the
\* span Start..End replaced, in place, by one Html event whose payload is the
\* render of t1 ++ ... ++ tn under the theme and the syntax of the block: the
\* registry entry of the fence token when it resolves, plain text when Indented.
C1_Substitution ==
    \A t \in Threads :
        call[t].pc = "ok" =>
            \A i, j \in 1..Len(events[t]) :
                OneBlock(events[t], i, j) =>
                    \E s \in SubstitutionSyntaxes(args[t].syntax_set, events[t][i]) :
                        call[t].ret =
                            Ok(SubSeq(events[t], 1, i - 1)
                                \o <<HtmlEv(Render(ConcatText(events[t], i + 1, j - 1),
                                                   args[t].syntax_set, s, args[t].theme))>>
                                \o SubSeq(events[t], j + 1, Len(events[t])))

\* A successful call whose only block holds two different fragments.
C1_Witness ==
    \E t \in Threads :
        /\ call[t].pc = "ok"
        /\ \E i, j \in 1..Len(events[t]) :
            /\ OneBlock(events[t], i, j)
            /\ j = i + 3
            /\ events[t][i + 1].text # events[t][i + 2].text

\* C2 (passthrough): a call whose input holds no code-block event neither
\* fails nor aborts, and what it returns is the input itself.
C2_Passthrough ==
    \A t \in Threads :
        NoCodeBlock(events[t]) =>
            /\ call[t].pc \notin {"err", "panic"}
            /\ call[t].pc = "ok" => call[t].ret = Ok(events[t])

\* A returned call on an input of Text and other events, three at least.
C2_Witness ==
    \E t \in Threads :
        /\ call[t].pc = "ok"
        /\ NoCodeBlock(events[t])
        /\ Len(events[t]) >= 3
        /\ \E i, j \in 1..Len(events[t]) : IsText(events[t][i]) /\ ~IsText(events[t][j])

\* Positions of the End events of the input, and of the Start that opens the
\* block an End closes (well-formed inputs).
EndPositions(in) == {j \in 1..Len(in) : IsEnd(in[j])}

OpeningStart(in, j) ==
    CHOOSE i \in 1..j : IsStart(in[i]) /\ \A k \in (i + 1)..j : ~IsStart(in[k])

\* The k-th End of the input (k counted from 1).
KthEnd(in, k) ==
    CHOOSE j \in EndPositions(in) : Cardinality({m \in EndPositions(in) : m <= j}) = k

\* The Html events of an output, in order.
HtmlsOf(out) == SelectSeq(out, IsHtml)

\* A Fenced start whose token the registry does not hold.
Unresolved(syntax_set, e) ==
    IsStart(e) /\ e.kind = "Fenced" /\ e.lang \notin DOMAIN syntax_set.by_token

\* The payload of a block in[i..j] rendered with the plain-text definition.
PlainRender(in, i, j, a) ==
    HtmlEv(Render(ConcatText(in, i + 1, j - 1), a.syntax_set, a.syntax_set.plain_text, a.theme))

\* C3 (fallback), as claimed: in a well-formed input every Fenced block whose
\* token the registry does not hold is rendered with the plain-text definition,
\* wherever the block stands, and a call that fails at such a block fails
\* because the engine rejects plain text, not because of the lookup miss.
C3_FallbackAsClaimed ==
    \A t \in Threads :
        LET in == events[t] IN
        /\ (call[t].pc = "ok" /\ WellFormed(in)) =>
              \A k \in 1..Cardinality(EndPositions(in)) :
                  LET j == KthEnd(in, k)
                      i == OpeningStart(in, j)
                  IN Unresolved(args[t].syntax_set, in[i]) =>
                         HtmlsOf(call[t].ret.events)[k] = PlainRender(in, i, j, args[t])
        /\ (call[t].pc = "err" /\ WellFormed(in)) =>
              (Unresolved(args[t].syntax_set, in[OpeningStart(in, Len(in))]) =>
                   args[t].syntax_set.plain_text \in rejects)

\* The syntax a block opened by e gets when it is rendered on its own.
OwnSyntax(syntax_set, e) ==
    IF e.kind = "Fenced" /\ e.lang \in DOMAIN syntax_set.by_token
    THEN syntax_set.by_token[e.lang]
    ELSE syntax_set.plain_text

\* C4 (multi-block independence), as claimed: when a call succeeds on a
\* well-formed input of two blocks, the second Html event is the render of the
\* second block under the syntax that block has on its own, whatever the
\* first block selected.
C4_IndependenceAsClaimed ==
    \A t \in Threads :
        LET in == events[t] IN
        (call[t].pc = "ok" /\ WellFormed(in) /\ Cardinality(EndPositions(in)) = 2) =>
            LET j == KthEnd(in, 2)
                i == OpeningStart(in, j)
            IN HtmlsOf(call[t].ret.events)[2] =
                   HtmlEv(Render(ConcatText(in, i + 1, j - 1), args[t].syntax_set,
                                 OwnSyntax(args[t].syntax_set, in[i]), args[t].theme))

\* The events of in[i..] that are neither code-block events nor Text received
\* while a block is open (open: a Start was seen and no End since).
RECURSIVE OutsideFrom(_, _, _)
OutsideFrom(in, i, open) ==
    IF i > Len(in) THEN <<>>
    ELSE IF IsStart(in[i]) THEN OutsideFrom(in, i + 1, TRUE)
    ELSE IF IsEnd(in[i]) THEN OutsideFrom(in, i + 1, FALSE)
    ELSE IF IsText(in[i]) /\ open THEN OutsideFrom(in, i + 1, open)
    ELSE <<in[i]>> \o OutsideFrom(in, i + 1, open)

NotHtml(e) == ~IsHtml(e)

\* C5 (order preservation): what a successful call returns is, once the Html
\* events are taken out, the input without its code-block events and without
\* the Text received inside a block: same events, same payloads, same order.
C5_OrderPreservation ==
    \A t \in Threads :
        call[t].pc = "ok" =>
            SelectSeq(call[t].ret.events, NotHtml) = OutsideFrom(events[t], 1, FALSE)

\* A successful call with an event before the block, one inside it that is
\* not Text, and one after it.
C5_Witness ==
    \E t \in Threads :
        /\ call[t].pc = "ok"
        /\ \E i, j \in 1..Len(events[t]) :
            /\ 1 < i /\ i + 1 < j
            /\ IsStart(events[t][i]) /\ IsEnd(events[t][j])
            /\ ~IsText(events[t][i + 1]) /\ ~IsCodeBlockEv(events[t][i + 1])
            /\ ~IsCodeBlockEv(events[t][1])

\* The engine's answer for the buffer, syntax and theme of the call of t.
EngineAnswer(t) ==
    highlighted_html_for_string(call[t].to_highlight, args[t].syntax_set,
                                call[t].syntax, args[t].theme)

\* The call of t pulls an End event in this step.
PullsEnd(t) == call[t].pc = "loop" /\ events'[t] = Append(events[t], EndCodeBlockEv)

\* C6 (engine failure): when the engine fails at an End, the call stops there
\* with HighlightError carrying the engine's error and hands no event to the
\* caller, whatever out_events held; a failed call pulls no further event.
C6_EngineFailureAborts ==
    /\ [](\A t \in Threads :
            call[t].pc = "err" =>
                /\ IsEnd(events[t][Len(events[t])])
                /\ ~EngineAnswer(t).ok
                /\ call[t].ret.tag = "Err"
                /\ call[t].ret.events = <<>>
                /\ call[t].ret.error = <<"HighlightError">> \o EngineAnswer(t).err)
    /\ [][\A t \in Threads :
            /\ (PullsEnd(t) /\ call[t].in_code_block /\ ~EngineAnswer(t).ok) =>
                   (call'[t].pc = "err" /\ call'[t].ret.events = <<>>)
            /\ call[t].pc = "err" =>
                   (events'[t] = events[t] \/ (events'[t] = <<>> /\ calls'[t] = calls[t] + 1))
         ]_vars

\* A failed call that had already appended events to its output.
C6_Witness ==
    \E t \in Threads : call[t].pc = "err" /\ Len(call[t].out_events) >= 2

\* C7 (End with no block open): the call aborts by panic, returning neither
\* Ok nor Err, and the engine is not invoked for that event.
C7_EndWithoutStartPanics ==
    /\ [][\A t \in Threads :
            (PullsEnd(t) /\ ~call[t].in_code_block) =>
                /\ call'[t].pc = "panic"
                /\ call'[t].ret = NoRet
                /\ call'[t].engine_calls = call[t].engine_calls
         ]_vars
    /\ [](\A t \in Threads : call[t].pc = "panic" => call[t].ret.tag = "None")

\* The abort at the second End of Start, Start, End, End.
C7_Witness ==
    \E t \in Threads :
        /\ call[t].pc = "panic"
        /\ Len(events[t]) = 4
        /\ IsStart(events[t][1]) /\ IsStart(events[t][2])
        /\ IsEnd(events[t][3]) /\ IsEnd(events[t][4])
        /\ call[t].engine_calls = 1

\* The locals of a call that has pulled nothing yet.
FreshLocals(a) ==
    [pc |-> "loop", in_code_block |-> FALSE, syntax |-> a.syntax_set.plain_text,
     to_highlight |-> <<>>, out_events |-> <<>>, ret |-> NoRet, engine_calls |-> 0]

\* The arm of the match that event e selects.
ArmOf(c, a, e) ==
    IF IsStart(e) THEN StartArm(c, a, e)
    ELSE IF IsEnd(e) THEN EndArm(c, a, e)
    ELSE IF IsText(e) THEN TextArm(c, a, e)
    ELSE OtherArm(c, a, e)

\* The frame of a call that runs alone, from fresh locals, over in[i..].
RECURSIVE RunFrom(_, _, _, _)
RunFrom(c, a, in, i) ==
    IF i > Len(in) \/ c.pc # "loop" THEN c ELSE RunFrom(ArmOf(c, a, in[i]), a, in, i + 1)

Alone(a, in) == RunFrom(FreshLocals(a), a, in, 1)

\* What the caller observes of a finished call: how it ended and with what.
Outcome(c) == <<c.pc, c.ret>>

\* C8 (no state across calls): every call on a thread, the first or a later
\* one, starts from in_code_block = FALSE, empty buffer, plain-text syntax and
\* empty output, and ends as a call on the same input, registry and theme
\* ends when nothing was called before it.
C8_NoStateAcrossCalls ==
    \A t \in Threads :
        /\ (call[t].pc = "loop" /\ events[t] = <<>>) => call[t] = FreshLocals(args[t])
        /\ Done(t) =>
              LET alone == Alone(args[t], events[t])
              IN Outcome(call[t]) = Outcome(IF alone.pc = "loop" THEN ReturnOk(alone) ELSE alone)

\* A second call on the same thread that returned the plain-text
\* render of a block with an unresolved token.
C8_Witness ==
    \E t \in Threads :
        /\ calls[t] >= 2
        /\ call[t].pc = "ok"
        /\ Len(events[t]) >= 2
        /\ Unresolved(args[t].syntax_set, events[t][1])
        /\ IsEnd(events[t][Len(events[t])])

\* C9 (object form and stateless form): a method call on the Highlighter and
\* a function call given the Highlighter's registry and theme end the same way
\* on the same input: same output, same error or same abort.
C9_FormsEquivalent ==
    \A t, u \in Threads :
        ( /\ Done(t) /\ Done(u)
          /\ form[t] = "method" /\ form[u] = "function"
          /\ args[u] = [syntax_set |-> highlighter.syntaxset, theme |-> highlighter.theme]
          /\ events[t] = events[u] )
        => Outcome(call[t]) = Outcome(call[u])

\* Both forms have returned the render of the same block.
C9_Witness ==
    \E t, u \in Threads :
        /\ form[t] = "method" /\ form[u] = "function"
        /\ call[t].pc = "ok" /\ call[u].pc = "ok"
        /\ args[u].theme = highlighter.theme
        /\ events[t] = events[u]
        /\ Len(call[t].ret.events) = 1
        /\ IsHtml(call[t].ret.events[1])

\* C10 (interleaved calls): in every state of every interleaving, the frame
\* of each call (in_code_block, syntax, buffer, output, result) is the frame
\* the call has when it runs alone over the events it has pulled.
C10_InterleavingIsolated ==
    \A t \in Threads :
        call[t].pc # "idle" =>
            LET alone == Alone(args[t], events[t])
            IN call[t] = IF call[t].pc = "ok" THEN ReturnOk(alone) ELSE alone

\* Two calls inside a block at the same time, one of which has buffered Text
\* and the other not.
C10_Witness ==
    /\ call[1].pc = "loop" /\ call[2].pc = "loop"
    /\ call[1].in_code_block /\ call[2].in_code_block
    /\ call[1].to_highlight # <<>>
    /\ call[2].to_highlight = <<>>

\* The syntax the selection rule gives after the first n events of the input:
\* the entry of the latest Fenced start whose token resolves, plain text if
\* there is none.
RECURSIVE SelectedAfter(_, _, _)
SelectedAfter(syntax_set, in, n) ==
    IF n = 0 THEN syntax_set.plain_text
    ELSE IF IsStart(in[n]) /\ in[n].kind = "Fenced" /\ in[n].lang \in DOMAIN syntax_set.by_token
         THEN syntax_set.by_token[in[n].lang]
         ELSE SelectedAfter(syntax_set, in, n - 1)

\* The part of a rendered payload that names the syntax.
SpanOf(syntax) == "<span " \o syntax \o ">"

C12_BufferEmptyOutsideBlock ==
    \A t \in Threads : ~call[t].in_code_block => call[t].to_highlight = <<>>

\* A call that goes on after it closed a block that held Text.
C12_Witness ==
    \E t \in Threads :
        /\ call[t].pc = "loop"
        /\ ~call[t].in_code_block
        /\ \E i \in 1..Len(events[t]) :
            /\ i + 2 <= Len(events[t])
            /\ IsStart(events[t][i]) /\ IsText(events[t][i + 1]) /\ IsEnd(events[t][i + 2])

\* The call of t pulls one event in this step (the last of events'[t]).
PullsOne(t) == call[t].pc = "loop" /\ Len(events'[t]) = Len(events[t]) + 1

Last(seq) == seq[Len(seq)]

\* No Start is pulled while a block is open, no End while none is.
NoNestedStart(in) == \A i \in 1..Len(in) : Depth(in, i) \in {0, 1}

\* C13 (syntax fixed inside a block): in an input without nested Start, each
\* Html is rendered with the syntax selected at the Start of its block; an
\* event that is no code-block Start or End leaves the selected syntax and
\* in_code_block as they are, and the End renders with the syntax selected
\* before it, however many Text events the block holds.
C13_SyntaxFixedInBlock ==
    /\ [](\A t \in Threads :
            (call[t].pc \in {"loop", "ok"} /\ NoNestedStart(events[t])) =>
                \A k \in 1..Len(HtmlsOf(call[t].out_events)) :
                    HtmlsOf(call[t].out_events)[k].text[2] =
                        SpanOf(SelectedAfter(args[t].syntax_set, events[t],
                                             OpeningStart(events[t], KthEnd(events[t], k)))))
    /\ [][\A t \in Threads :
          PullsOne(t) =>
              /\ ~IsCodeBlockEv(Last(events'[t])) =>
                     /\ call'[t].syntax = call[t].syntax
                     /\ call'[t].in_code_block = call[t].in_code_block
              /\ (IsEnd(Last(events'[t])) /\ call'[t].pc = "loop") =>
                     /\ call'[t].syntax = call[t].syntax
                     /\ Last(call'[t].out_events).text[2] = SpanOf(call[t].syntax)
      ]_vars

\* A python block of two Text events, rendered with python.
C13_Witness ==
    \E t \in Threads :
        /\ call[t].pc = "loop"
        /\ Len(events[t]) = 4
        /\ events[t][1] = StartFenced("py")
        /\ IsText(events[t][2]) /\ IsText(events[t][3]) /\ IsEnd(events[t][4])
        /\ Len(call[t].out_events) = 1
        /\ call[t].out_events[1].text[2] = SpanOf("python")

\* An event the transform neither interprets nor buffers.
IsOther(e) == ~IsText(e) /\ ~IsCodeBlockEv(e)

\* The Start that opened the block still open at the end of the input.
OpenStart(in) ==
    CHOOSE i \in 1..Len(in) :
        /\ IsStart(in[i])
        /\ \A k \in (i + 1)..Len(in) : ~IsEnd(in[k])
        /\ \A k \in 1..(i - 1) : IsStart(in[k]) => \E m \in (k + 1)..(i - 1) : IsEnd(in[m])

\* C14 (input ends inside a block): the call returns Ok with the events emitted
\* so far; no Html stands for the open block (one Html per End, all of them
\* before the events forwarded since the block opened), and of the events that
\* follow the opening Start only those that are not Text are in the output.
C14_OpenBlockAtEnd ==
    \A t \in Threads :
        (call[t].pc = "ok" /\ call[t].in_code_block) =>
            LET in == events[t]
                i == OpenStart(in)
                out == call[t].ret.events
                tail == SelectSeq(SubSeq(in, i + 1, Len(in)), IsOther)
            IN /\ call[t].ret.tag = "Ok"
               /\ out = call[t].out_events
               /\ Len(HtmlsOf(out)) = Cardinality(EndPositions(in))
               /\ SelectSeq(out, NotHtml) = OutsideFrom(SubSeq(in, 1, i - 1), 1, FALSE) \o tail
               /\ SubSeq(out, Len(out) - Len(tail) + 1, Len(out)) = tail

\* A call that returned with Text in the buffer of an open block, after
\* a block it had closed.
C14_Witness ==
    \E t \in Threads :
        /\ call[t].pc = "ok"
        /\ call[t].in_code_block
        /\ call[t].to_highlight # <<>>
        /\ Len(HtmlsOf(call[t].ret.events)) = 1

\* C15 (termination, single pass): a call in progress ends (Ok, HighlightError
\* or abort); every step that changes the input record either starts a call or
\* pulls exactly one event behind those already pulled and runs its arm once
\* on it, so nothing is pulled after the end, re-read or skipped; and a call
\* that succeeds has run the engine once per End of its input.
C15_TerminatesSinglePass ==
    /\ \A t \in Threads : (call[t].pc = "loop") ~> Done(t)
    /\ [][\A t \in Threads :
            events'[t] # events[t] =>
                \/ /\ PullsOne(t)
                   /\ SubSeq(events'[t], 1, Len(events[t])) = events[t]
                   /\ call'[t] = ArmOf(call[t], args[t], Last(events'[t]))
                \/ /\ Returned(t)
                   /\ events'[t] = <<>>
                   /\ call'[t].pc = "loop"
         ]_vars
    /\ [](\A t \in Threads :
            call[t].pc = "ok" =>
                call[t].engine_calls = Cardinality(EndPositions(events[t])))

\* A call that has returned Ok after the longest input explored.
C15_Witness ==
    \E t \in Threads :
        /\ call[t].pc = "ok"
        /\ Len(events[t]) = MaxLenSyn
        /\ call[t].engine_calls = 2

\* Number of Text events of in[i..] pulled while a block is open.
RECURSIVE InBlockTexts(_, _, _)
InBlockTexts(in, i, open) ==
    IF i > Len(in) THEN 0
    ELSE IF IsStart(in[i]) THEN InBlockTexts(in, i + 1, TRUE)
    ELSE IF IsEnd(in[i]) THEN InBlockTexts(in, i + 1, FALSE)
    ELSE (IF IsText(in[i]) /\ open THEN 1 ELSE 0) + InBlockTexts(in, i + 1, open)

\* The Start that opened the block the k-th End closes: the first Start behind
\* the End before it.
FirstStartOf(in, k) ==
    LET prev == IF k = 1 THEN 0 ELSE KthEnd(in, k - 1)
    IN CHOOSE i \in (prev + 1)..KthEnd(in, k) :
           IsStart(in[i]) /\ \A m \in (prev + 1)..(i - 1) : ~IsStart(in[m])

\* Position in the output of its k-th Html event.
KthHtmlPos(out, k) ==
    CHOOSE p \in 1..Len(out) :
        IsHtml(out[p]) /\ Cardinality({q \in 1..p : IsHtml(out[q])}) = k

\* C16 (shape of the output): what a successful call returns holds no
\* code-block Start or End; it holds one Html per End of the input, in End
\* order, each the render of the Text buffered in its block (of the empty
\* string for a block without Text) and each standing behind the events
\* forwarded before its End; and its length is the input's minus the Starts
\* minus the Text events pulled while a block was open.
C16_OutputShape ==
    \A t \in Threads :
        call[t].pc = "ok" =>
            LET in == events[t]
                out == call[t].ret.events
            IN /\ \A p \in 1..Len(out) : ~IsCodeBlockEv(out[p])
               /\ Len(HtmlsOf(out)) = Cardinality(EndPositions(in))
               /\ \A k \in 1..Cardinality(EndPositions(in)) :
                      /\ \E s \in Syntaxes :
                             HtmlsOf(out)[k] =
                                 HtmlEv(Render(ConcatText(in, FirstStartOf(in, k), KthEnd(in, k)),
                                               args[t].syntax_set, s, args[t].theme))
                      /\ KthHtmlPos(out, k) =
                             Len(OutsideFrom(SubSeq(in, 1, KthEnd(in, k)), 1, FALSE)) + k
               /\ Len(out) =
                      Len(in) - Cardinality({i \in 1..Len(in) : IsStart(in[i])})
                              - InBlockTexts(in, 1, FALSE)

\* A successful call on four events with a block that holds no Text and
\* a Text event outside it.
C16_Witness ==
    \E t \in Threads :
        /\ call[t].pc = "ok"
        /\ Len(events[t]) = 4
        /\ \E j \in 2..4 : IsStart(events[t][j - 1]) /\ IsEnd(events[t][j])
        /\ \E j \in 1..4 : IsText(events[t][j])
        /\ Len(call[t].ret.events) = 3

\* C17 (Start inside an open block): such a Start raises nothing and opens no
\* second block: in_code_block stays TRUE, buffer, output and result are kept,
\* only the selected syntax may change; the next End closes the block and
\* emits one Html, the render of all the Text pulled since the first Start
\* under the syntax selected last.
C17_NestedStart ==
    /\ [][\A t \in Threads :
            (PullsOne(t) /\ IsStart(Last(events'[t])) /\ call[t].in_code_block) =>
                call'[t] = [call[t] EXCEPT !.syntax = call'[t].syntax]
         ]_vars
    /\ [](\A t \in Threads :
            ( /\ call[t].pc = "loop"
              /\ events[t] # <<>>
              /\ IsEnd(Last(events[t])) ) =>
                LET in == events[t]
                    k == Cardinality(EndPositions(in))
                IN /\ ~call[t].in_code_block
                   /\ call[t].to_highlight = <<>>
                   /\ Len(HtmlsOf(call[t].out_events)) = k
                   /\ Last(call[t].out_events) =
                          HtmlEv(Render(ConcatText(in, FirstStartOf(in, k), Len(in)),
                                        args[t].syntax_set,
                                        SelectedAfter(args[t].syntax_set, in, Len(in)),
                                        args[t].theme)))

\* Start(py), Text, Start(rs), Text, End: one Html, both Texts, rendered
\* with rust.
C17_Witness ==
    \E t \in Threads :
        /\ call[t].pc = "loop"
        /\ Len(events[t]) = 5
        /\ events[t][1] = StartFenced("py") /\ IsText(events[t][2])
        /\ events[t][3] = StartFenced("rs") /\ IsText(events[t][4])
        /\ IsEnd(events[t][5])
        /\ ~call[t].in_code_block
        /\ Len(call[t].out_events) = 1
        /\ call[t].out_events[1].text[2] = SpanOf("rust")
        /\ Len(call[t].out_events[1].text) = 6

\* C18 (other events inside a block): an event that is neither Text nor a
\* code-block Start or End, pulled while a block is open, is appended to the
\* output at once and the buffer is left alone; in the output it stands
\* before the Html of the block it was pulled in, and that Html is the render
\* of the Text of the block alone.
C18_OtherInsideBlock ==
    /\ [][\A t \in Threads :
            (PullsOne(t) /\ IsOther(Last(events'[t])) /\ call[t].in_code_block) =>
                call'[t] =
                    [call[t] EXCEPT !.out_events = Append(call[t].out_events, Last(events'[t]))]
         ]_vars
    /\ [](\A t \in Threads :
            call[t].pc \in {"loop", "ok"} =>
                LET in == events[t]
                    out == call[t].out_events
                IN \A k \in 1..Len(HtmlsOf(out)) :
                       \A m \in FirstStartOf(in, k)..KthEnd(in, k) :
                           IsOther(in[m]) =>
                               LET p == Len(OutsideFrom(SubSeq(in, 1, m), 1, FALSE)) + k - 1
                               IN /\ out[p] = in[m]
                                  /\ p < KthHtmlPos(out, k)
                                  /\ \E s \in Syntaxes :
                                         out[KthHtmlPos(out, k)] =
                                             HtmlEv(Render(ConcatText(in, FirstStartOf(in, k),
                                                                      KthEnd(in, k)),
                                                           args[t].syntax_set, s, args[t].theme)))

\* Start, Rule, Text, End: the output is the Rule, then the Html of the
\* block.
C18_Witness ==
    \E t \in Threads :
        /\ call[t].pc = "ok"
        /\ Len(events[t]) = 4
        /\ IsStart(events[t][1]) /\ IsOther(events[t][2])
        /\ IsText(events[t][3]) /\ IsEnd(events[t][4])
        /\ Len(call[t].ret.events) = 2
        /\ call[t].ret.events[1] = events[t][2]
        /\ IsHtml(call[t].ret.events[2])

====
